---- MODULE Spec2Model ----
(***************************************************************************)
(* Model of plugins/kicad_better_bom.py: a KiCad BOM plugin that filters   *)
(* the netlist's components, groups them with the overridden component     *)
(* equality myEqu, writes one CSV row per group and appends the rows of an *)
(* optional auxiliary CSV.                                                 *)
(*                                                                         *)
(* Python values are encoded as follows.  None is the empty tuple <<>> and *)
(* a present value v is the one-element tuple <<v>>, so that None differs  *)
(* from every string, the empty string included.  A component is a record  *)
(* [ref, value, partName, footprint, fields] whose fields are a sequence   *)
(* of [name, value] pairs in the order getFieldNames() lists them.         *)
(***************************************************************************)
EXTENDS Integers, Sequences, FiniteSets, TLC

VARIABLES
    pc,            \* position of the script / of the comparison harness
    netlist,       \* net.getInterestingComponents()
    components,    \* the module variable `components` (line 111, 119)
    row,           \* the module variable `row`, the reused row buffer
    c,             \* the module variable `c`, last component visited
    grouped,       \* the module variable `grouped`
    gi,            \* position of `for group in grouped`
    output,        \* rows handed to the csv writer, after str()
    auxFile,       \* the file <output>-aux.csv
    closed,        \* f.close() was executed
    exitCode,      \* -1 while running, then the process exit code
    self,          \* comparison harness: left operand
    other,         \* comparison harness: right operand
    third,         \* comparison harness: a third component
    results        \* comparison harness: results of myEqu

vars == <<pc, netlist, components, row, c, grouped, gi, output, auxFile,
          closed, exitCode, self, other, third, results>>

pipeVars == <<netlist, components, row, c, grouped, gi, output, auxFile,
              closed, exitCode>>

equVars == <<self, other, third, results>>

---------------------------------------------------------------------------
(* Bounds of the model *)

MaxComps == 3
MaxAuxRows == 2

---------------------------------------------------------------------------
(* Constants of the script *)

None == <<>>

Some(v) == <<v>>

hmtFieldNames == <<"description", "mfg1", "mfg1pn", "mfg2", "mfg2pn">>

columns == <<"Qty", "Reference(s)", "description", "mfg1", "mfg1pn", "mfg2", "mfg2pn">>

Range(s) == {s[i] : i \in 1..Len(s)}

\* str.lower() on the alphabet of field names the model uses
toLower(str) ==
    CASE str = "MFG1" -> "mfg1"
      [] str = "Mfg2" -> "mfg2"
      [] str = "Description" -> "description"
      [] str = "Exclude" -> "exclude"
      [] str = "EXCLUDE" -> "exclude"
      [] OTHER -> str

---------------------------------------------------------------------------
(* Component accessors of kicad_netlist_reader.comp *)

getFieldNames(comp) == [i \in 1..Len(comp.fields) |-> comp.fields[i].name]

\* list.index(x): position of the first element equal to x
IndexOf(s, x) == CHOOSE i \in 1..Len(s) : s[i] = x /\ \A j \in 1..(i - 1) : s[j] # x

\* comp.getField(name) for a name taken from getFieldNames()
getField(comp, name) == comp.fields[IndexOf(getFieldNames(comp), name)].value

\* getCaseInsensitiveField with an exact, case-sensitive name match
getFieldCaseSensitive(comp, fieldName) ==
    IF fieldName \notin Range(getFieldNames(comp))
    THEN None
    ELSE Some(getField(comp, fieldName))

getCaseInsensitiveField(comp, fieldName) ==
    LET fieldNames == [i \in 1..Len(comp.fields) |-> toLower(getFieldNames(comp)[i])]
        lowered == toLower(fieldName)
    IN  IF lowered \notin Range(fieldNames)
        THEN None
        ELSE Some(getField(comp, getFieldNames(comp)[IndexOf(fieldNames, lowered)]))

---------------------------------------------------------------------------
(* The equivalence predicate *)

\* equByHMTFields comparing only the fields both components carry
equByCommonHMTFields(comp, oth) ==
    LET compFieldNames == {toLower(n) : n \in Range(getFieldNames(comp))} \cap Range(hmtFieldNames)
        otherFieldNames == {toLower(n) : n \in Range(getFieldNames(oth))} \cap Range(hmtFieldNames)
        allFieldNames == compFieldNames \cap otherFieldNames
    IN  IF Cardinality(allFieldNames) = 0
        THEN None
        ELSE Some(\A name \in allFieldNames :
                    getCaseInsensitiveField(comp, name) = getCaseInsensitiveField(oth, name))

\* None, or Some(TRUE/FALSE): the conjunction over the union of the HMT names
equByHMTFields(comp, oth) ==
    LET compFieldNames == {toLower(n) : n \in Range(getFieldNames(comp))} \cap Range(hmtFieldNames)
        otherFieldNames == {toLower(n) : n \in Range(getFieldNames(oth))} \cap Range(hmtFieldNames)
        allFieldNames == compFieldNames \cup otherFieldNames
    IN  IF Cardinality(allFieldNames) = 0
        THEN None
        ELSE Some(\A name \in allFieldNames :
                    getCaseInsensitiveField(comp, name) = getCaseInsensitiveField(oth, name))

\* myEqu with value, part name and footprint compared before the HMT fields
myEquValueFirst(slf, oth) ==
    IF slf.value # oth.value THEN Some(FALSE)
    ELSE IF slf.partName # oth.partName THEN Some(FALSE)
    ELSE IF slf.footprint # oth.footprint THEN Some(FALSE)
    ELSE equByHMTFields(slf, oth)

\* The value myEqu returns: None, Some(TRUE) or Some(FALSE)
myEqu(slf, oth) ==
    LET result == equByHMTFields(slf, oth)
    IN  IF result # None THEN result
        ELSE IF slf.value # oth.value THEN Some(FALSE)
        ELSE IF slf.partName # oth.partName THEN Some(FALSE)
        ELSE IF slf.footprint # oth.footprint THEN Some(FALSE)
        ELSE result

\* Python truth value of what `ci == c` evaluates to
Truthy(r) == r = Some(TRUE)

---------------------------------------------------------------------------
(* Inputs: the components a netlist may hold *)

Triple(v, p, f) == [value |-> v, partName |-> p, footprint |-> f]

\* value, part name and footprint: a base and one variation of each
MandatoryPool ==
    { Triple("10k", "R", "0603"), Triple("1k", "R", "0603"),
      Triple("10k", "POT", "0603"), Triple("10k", "R", "0805") }

Field(n, v) == [name |-> n, value |-> v]

\* user fields: none, a non-HMT field, HMT fields in both spellings, with
\* equal and differing values, on one side only, and an exclude field
FieldsPool ==
    { <<>>,
      <<Field("note", "a")>>,
      <<Field("mfg1", "a")>>,
      <<Field("MFG1", "a")>>,
      <<Field("mfg1", "b")>>,
      <<Field("mfg1", "a"), Field("Mfg2", "c")>>,
      <<Field("mfg1", "a"), Field("mfg2", "d")>>,
      <<Field("Description", "a"), Field("note", "a")>>,
      <<Field("Exclude", "")>> }

Comp(r, t, fs) ==
    [ref |-> r, value |-> t.value, partName |-> t.partName,
     footprint |-> t.footprint, fields |-> fs]

\* a component with its value, part name and footprint replaced
WithMandatory(comp, t) == Comp(comp.ref, t, comp.fields)

\* the components the comparison harness draws its operands from
EquComps(r) == {Comp(r, t, fs) : t \in MandatoryPool, fs \in FieldsPool}

RefOf(i) == "R" \o ToString(i)

\* the components of the netlists the script is run on
PipePool ==
    { [t |-> Triple("10k", "R", "0603"), fs |-> <<>>],
      [t |-> Triple("1k", "R", "0603"), fs |-> <<>>],
      [t |-> Triple("10k", "R", "0603"), fs |-> <<Field("mfg1", "a")>>],
      [t |-> Triple("1k", "R", "0805"), fs |-> <<Field("MFG1", "a")>>],
      [t |-> Triple("10k", "R", "0603"), fs |-> <<Field("mfg1", "b")>>],
      [t |-> Triple("10k", "R", "0603"), fs |-> <<Field("Exclude", "")>>],
      [t |-> Triple("10k", "R", "0603"),
       fs |-> <<Field("mfg1", "a"), Field("EXCLUDE", "x")>>] }

Netlists ==
    UNION { { [i \in 1..n |-> Comp(RefOf(i), q[i].t, q[i].fs)] : q \in [1..n -> PipePool] }
            : n \in 0..MaxComps }

\* the auxiliary CSV: its header row (None for a file with no line at all)
\* and its data rows, a cell per header name
WideHeader ==
    <<"Notes", "mfg2pn", "mfg2", "mfg1pn", "mfg1", "description", "Reference(s)", "Qty">>

ShortHeader == <<"Qty", "Reference(s)", "description", "mfg1", "mfg1pn", "mfg2">>

AuxCell(name, k) == name \o "@" \o ToString(k)

AuxRows(header, n) == [k \in 1..n |-> [j \in 1..Len(header) |-> AuxCell(header[j], k)]]

AuxFiles ==
    { [exists |-> FALSE, header |-> None, rows |-> <<>>],
      [exists |-> TRUE, header |-> None, rows |-> <<>>] }
    \cup { [exists |-> TRUE, header |-> Some(h), rows |-> AuxRows(h, n)] :
             h \in {columns, WideHeader, ShortHeader}, n \in 0..MaxAuxRows }

---------------------------------------------------------------------------
(* Cells of the row buffer and what str() makes of them *)

IntCell(n) == [kind |-> "int", int |-> n, str |-> ""]

StrCell(s) == [kind |-> "str", int |-> 0, str |-> s]

NoneCell == [kind |-> "none", int |-> 0, str |-> ""]

OptCell(o) == IF o = None THEN NoneCell ELSE StrCell(o[1])

\* str(col) of writerow
Str(cell) ==
    CASE cell.kind = "int" -> ToString(cell.int)
      [] cell.kind = "str" -> cell.str
      [] OTHER -> "None"

\* writerow(acsvwriter, columns): the row of strings given to the csv writer
writerow(cells) == [i \in 1..Len(cells) |-> Str(cells[i])]

---------------------------------------------------------------------------
(* The exclusion filter *)

\* the filter keeping a component whose exclude field is None or empty
FilterKeepFalsy(comps) ==
    LET Keep(component) ==
            LET exclude == getCaseInsensitiveField(component, "exclude")
            IN  exclude = None \/ exclude = Some("")
    IN  SelectSeq(comps, Keep)

\* filteredComponents after the loop over components
FilterComponents(comps) ==
    LET Keep(component) == getCaseInsensitiveField(component, "exclude") = None
    IN  SelectSeq(comps, Keep)

---------------------------------------------------------------------------
(* Grouping and the row of a group *)

\* net.groupComponents(components): each ungrouped component opens a group
\* and takes every later ungrouped component ci with `ci == c` true
RECURSIVE groupComponents(_)
groupComponents(comps) ==
    IF comps = <<>> THEN <<>>
    ELSE LET first == Head(comps)
             Same(ci) == Truthy(myEqu(ci, first))
             Differs(ci) == ~Truthy(myEqu(ci, first))
         IN  <<(<<first>> \o SelectSeq(Tail(comps), Same))>>
               \o groupComponents(SelectSeq(Tail(comps), Differs))

\* getGroupField looking the column name up as it is spelled
getGroupFieldExactName(group, field) == getFieldCaseSensitive(group[Len(group)], field)

\* net.getGroupField(group, field)
getGroupField(group, field) == getCaseInsensitiveField(group[Len(group)], field)

\* refs after the loop over the first n components of the group
RECURSIVE JoinRefs(_, _)
JoinRefs(group, n) ==
    IF n = 0 THEN ""
    ELSE LET refs == JoinRefs(group, n - 1)
         IN  (IF Len(refs) > 0 THEN refs \o ", " ELSE refs) \o group[n].ref

\* the row buffer extended without being emptied first
BuildRowNoClear(buffer, group) ==
    buffer \o <<IntCell(Len(group)), StrCell(JoinRefs(group, Len(group)))>>
           \o [k \in 1..(Len(columns) - 2) |-> OptCell(getGroupField(group, columns[k + 2]))]

\* the row buffer whose quantity counts the separators of the references
BuildRowQtyOff(buffer, group) ==
    <<IntCell(Len(group) - 1), StrCell(JoinRefs(group, Len(group)))>>
      \o [k \in 1..(Len(columns) - 2) |-> OptCell(getGroupField(group, columns[k + 2]))]

\* the row buffer after one pass of the loop over grouped
BuildRow(buffer, group) ==
    LET cleared == SubSeq(buffer, 1, 0)
    IN  cleared \o <<IntCell(Len(group)), StrCell(JoinRefs(group, Len(group)))>>
                \o [k \in 1..(Len(columns) - 2) |-> OptCell(getGroupField(group, columns[k + 2]))]

---------------------------------------------------------------------------
(* The auxiliary BOM *)

\* set(columns).issubset(fieldnames)
SchemaInHeader(fieldnames) == Range(columns) \subseteq Range(fieldnames)

\* map(rowValueForName, columns) for a DictReader row
ProjectAuxRow(fieldnames, cells) ==
    [k \in 1..Len(columns) |-> StrCell(cells[IndexOf(fieldnames, columns[k])])]

\* the rows in file order, each cut after its first seven cells
AuxOutputByPosition(fieldnames, rows) ==
    [k \in 1..Len(rows) |-> writerow([j \in 1..Len(columns) |-> StrCell(rows[k][j])])]

\* the rows written by the loop over csvRows
AuxOutput(fieldnames, rows) ==
    [k \in 1..Len(rows) |-> writerow(ProjectAuxRow(fieldnames, rows[k]))]

---------------------------------------------------------------------------
(* The script, from net.getInterestingComponents() to f.close() *)

NoHarness == self = None /\ other = None /\ third = None /\ results = None

Init ==
    /\ pc = "start"
    /\ netlist \in Netlists
    /\ auxFile \in AuxFiles
    /\ components = <<>>
    /\ row = <<>>
    /\ c = None
    /\ grouped = <<>>
    /\ gi = 0
    /\ output = <<>>
    /\ closed = FALSE
    /\ exitCode = -1
    /\ NoHarness

\* lines 111-119
Filter ==
    /\ pc = "start"
    /\ components' = FilterComponents(netlist)
    /\ pc' = "filtered"
    /\ UNCHANGED <<netlist, row, c, grouped, gi, output, auxFile, closed, exitCode>>
    /\ UNCHANGED equVars

\* lines 121-137
WriteHeader ==
    /\ pc = "filtered"
    /\ row' = <<>>
    /\ output' = Append(output, writerow([i \in 1..Len(columns) |-> StrCell(columns[i])]))
    /\ pc' = "header"
    /\ UNCHANGED <<netlist, components, c, grouped, gi, auxFile, closed, exitCode>>
    /\ UNCHANGED equVars

\* lines 141-144
Group ==
    /\ pc = "header"
    /\ grouped' = groupComponents(components)
    /\ gi' = 1
    /\ pc' = "rows"
    /\ UNCHANGED <<netlist, components, row, c, output, auxFile, closed, exitCode>>
    /\ UNCHANGED equVars

\* lines 145-164, one pass of the loop
WriteGroupRow ==
    /\ pc = "rows"
    /\ gi <= Len(grouped)
    /\ LET group == grouped[gi]
       IN  /\ c' = Some(group[Len(group)])
           /\ row' = BuildRow(row, group)
           /\ output' = Append(output, writerow(row'))
    /\ gi' = gi + 1
    /\ UNCHANGED <<pc, netlist, components, grouped, auxFile, closed, exitCode>>
    /\ UNCHANGED equVars

\* lines 167-169, 181-183: open() raises IOError
AuxMissing ==
    /\ pc = "rows"
    /\ gi > Len(grouped)
    /\ ~auxFile.exists
    /\ pc' = "close"
    /\ UNCHANGED pipeVars
    /\ UNCHANGED equVars

\* lines 171-173: fieldnames is None, issubset(None) raises TypeError
AuxNoHeader ==
    /\ pc = "rows"
    /\ gi > Len(grouped)
    /\ auxFile.exists
    /\ auxFile.header = None
    /\ pc' = "aborted"
    /\ exitCode' = 1
    /\ UNCHANGED <<netlist, components, row, c, grouped, gi, output, auxFile, closed>>
    /\ UNCHANGED equVars

\* lines 171-174
AuxSchemaMismatch ==
    /\ pc = "rows"
    /\ gi > Len(grouped)
    /\ auxFile.exists
    /\ auxFile.header # None
    /\ ~SchemaInHeader(auxFile.header[1])
    /\ pc' = "close"
    /\ UNCHANGED pipeVars
    /\ UNCHANGED equVars

\* lines 171-179; the loop rebinds `row` to each DictReader row, which
\* nothing reads afterwards, so the buffer is left as it is
AuxMerge ==
    /\ pc = "rows"
    /\ gi > Len(grouped)
    /\ auxFile.exists
    /\ auxFile.header # None
    /\ SchemaInHeader(auxFile.header[1])
    /\ output' = output \o AuxOutput(auxFile.header[1], auxFile.rows)
    /\ pc' = "close"
    /\ UNCHANGED <<netlist, components, row, c, grouped, gi, auxFile, closed, exitCode>>
    /\ UNCHANGED equVars

\* line 186 and the normal end of the script
Close ==
    /\ pc = "close"
    /\ closed' = TRUE
    /\ exitCode' = 0
    /\ pc' = "done"
    /\ UNCHANGED <<netlist, components, row, c, grouped, gi, output, auxFile>>
    /\ UNCHANGED equVars

Next ==
    \/ Filter
    \/ WriteHeader
    \/ Group
    \/ WriteGroupRow
    \/ AuxMissing
    \/ AuxNoHeader
    \/ AuxSchemaMismatch
    \/ AuxMerge
    \/ Close

Spec == Init /\ [][Next]_vars

---------------------------------------------------------------------------
(* The equivalence predicate applied to drawn components *)

InitEqu ==
    /\ pc = "equ_start"
    /\ self \in EquComps("R1")
    /\ other \in EquComps("R2")
    /\ third \in EquComps("R3")
    /\ results = None
    /\ netlist = <<>>
    /\ auxFile = [exists |-> FALSE, header |-> None, rows |-> <<>>]
    /\ components = <<>>
    /\ row = <<>>
    /\ c = None
    /\ grouped = <<>>
    /\ gi = 0
    /\ output = <<>>
    /\ closed = FALSE
    /\ exitCode = -1

\* self == other, other == self, other == third, self == third
CompareEqu ==
    /\ pc = "equ_start"
    /\ results' = Some([so |-> myEqu(self, other), os |-> myEqu(other, self),
                        ot |-> myEqu(other, third), st |-> myEqu(self, third),
                        again |-> myEqu(self, other)])
    /\ pc' = "equ_compared"
    /\ UNCHANGED <<self, other, third>>
    /\ UNCHANGED pipeVars

\* one operand gets another value, part name and footprint; self == other again
ChangeMandatory ==
    /\ pc = "equ_compared"
    /\ \E t \in MandatoryPool :
         \/ self' = WithMandatory(self, t) /\ other' = other
         \/ other' = WithMandatory(other, t) /\ self' = self
    /\ results' = Some([results[1] EXCEPT !.again = myEqu(self', other')])
    /\ pc' = "equ_changed"
    /\ UNCHANGED third
    /\ UNCHANGED pipeVars

NextEqu ==
    \/ CompareEqu
    \/ ChangeMandatory

SpecEqu == InitEqu /\ [][NextEqu]_vars

---------------------------------------------------------------------------
(* Vocabulary of the properties, stated without the operators of the script *)

HasHMTField(comp) ==
    \E i \in 1..Len(comp.fields) : toLower(comp.fields[i].name) \in Range(hmtFieldNames)

HasExcludeField(comp) ==
    \E i \in 1..Len(comp.fields) : toLower(comp.fields[i].name) = "exclude"

\* the values a component gives for a field name, whatever its spelling
ValuesOf(comp, name) ==
    {comp.fields[i].value : i \in {j \in 1..Len(comp.fields) : toLower(comp.fields[j].name) = name}}

SharesEqualHMTField(a, b) ==
    \E name \in Range(hmtFieldNames) :
        ValuesOf(a, name) # {} /\ ValuesOf(a, name) = ValuesOf(b, name)

NoDifferingHMTField(a, b) ==
    \A name \in Range(hmtFieldNames) : ValuesOf(a, name) = ValuesOf(b, name)

SameMandatory(a, b) ==
    a.value = b.value /\ a.partName = b.partName /\ a.footprint = b.footprint

NotExcluded(comp) == ~HasExcludeField(comp)

\* the references of a group from position k on, joined by ", "
RECURSIVE RefsFrom(_, _)
RefsFrom(group, k) ==
    IF k = Len(group) THEN group[k].ref
    ELSE group[k].ref \o ", " \o RefsFrom(group, k + 1)

\* the number a Qty cell shows
ParseQty(cell) == CHOOSE n \in 0..(MaxComps + 1) : ToString(n) = cell

RECURSIVE SumQty(_, _)
SumQty(rows, n) == IF n = 0 THEN 0 ELSE SumQty(rows, n - 1) + ParseQty(rows[n][1])

RECURSIVE SumSizes(_, _)
SumSizes(groups, n) == IF n = 0 THEN 0 ELSE SumSizes(groups, n - 1) + Len(groups[n])

\* positions of a component in the groups
PlacesOf(comp) ==
    {<<g, k>> \in (1..Len(grouped)) \X (1..MaxComps + 1) :
        k <= Len(grouped[g]) /\ grouped[g][k] = comp}

KeptOfNetlist == {netlist[i] : i \in {j \in 1..Len(netlist) : NotExcluded(netlist[j])}}

Compared == pc \in {"equ_compared", "equ_changed"}

\* every group has its row in the output
RowsWritten == pc \in {"rows", "close", "done", "aborted"} /\ gi > Len(grouped)

\* the rows of the groups, as written
GroupRows == SubSeq(output, 2, 1 + Len(grouped))

HeaderHasSchema == auxFile.header # None /\ Range(columns) \subseteq Range(auxFile.header[1])

---------------------------------------------------------------------------
(* C1 *)

\* C1: for two components without any HMT field, myEqu is true exactly when
\* value, part name and footprint are all equal.
C1_FallbackIsTripleEquality ==
    (Compared /\ ~HasHMTField(self) /\ ~HasHMTField(other))
        => (Truthy(results[1].again) <=> SameMandatory(self, other))

(* C2 *)

\* C2: two components that share an HMT field with equal values and have no
\* HMT field that differs (one-sided counts as differing) are equivalent,
\* whatever their value, part name and footprint.
C2_EqualHMTFieldsAreEquivalent ==
    (Compared /\ SharesEqualHMTField(self, other) /\ NoDifferingHMTField(self, other))
        => results[1].again = Some(TRUE)

C2_Witness ==
    /\ Compared
    /\ SharesEqualHMTField(self, other) /\ NoDifferingHMTField(self, other)
    /\ getFieldNames(self) # getFieldNames(other)
    /\ self.value # other.value /\ self.footprint # other.footprint
    /\ results[1].again = Some(TRUE)

(* C7 *)

\* C7: when one of the two components has an HMT field, the result of myEqu
\* is the same after any change of value, part name or footprint, and a
\* differing or one-sided HMT field makes the components not equivalent
\* even with equal value, part name and footprint.
C7_HMTFieldsDecideAlone ==
    /\ (pc = "equ_changed" /\ (HasHMTField(self) \/ HasHMTField(other)))
          => results[1].again = results[1].so
    /\ (Compared /\ (HasHMTField(self) \/ HasHMTField(other))
          /\ ~NoDifferingHMTField(self, other))
          => ~Truthy(results[1].again)

C7_Witness ==
    /\ pc = "equ_changed"
    /\ HasHMTField(self) /\ ~HasHMTField(other)
    /\ SameMandatory(self, other)
    /\ results[1].again = Some(FALSE)
    /\ results[1].so = Some(FALSE)

(* C8 *)

\* C8: myEqu is transitive: if self == other and other == third are true
\* then self == third is true; and, for comparing against one member to be
\* as good as comparing pairwise, self == other is true when other == self is.
C8_Transitive ==
    /\ (pc = "equ_compared" /\ Truthy(results[1].so) /\ Truthy(results[1].ot))
          => Truthy(results[1].st)
    /\ (pc = "equ_compared" /\ Truthy(results[1].os)) => Truthy(results[1].so)

C8_Witness ==
    /\ pc = "equ_compared"
    /\ Truthy(results[1].so) /\ Truthy(results[1].ot) /\ Truthy(results[1].st)
    /\ getFieldNames(self) # getFieldNames(other)
    /\ ~SameMandatory(self, third)

(* C3 *)

\* C3: after grouping, every non-excluded component of the netlist is at
\* exactly one place of the groups, the groups hold nothing else, and the
\* group sizes, and the Qty cells once written, add up to the number of
\* non-excluded components (zero when there is none).
C3_GroupsPartitionFiltered ==
    /\ pc \in {"rows", "close", "done", "aborted"} =>
          /\ \A comp \in KeptOfNetlist : Cardinality(PlacesOf(comp)) = 1
          /\ \A g \in 1..Len(grouped) : Range(grouped[g]) \subseteq KeptOfNetlist
          /\ SumSizes(grouped, Len(grouped)) = Cardinality(KeptOfNetlist)
    /\ RowsWritten => SumQty(GroupRows, Len(grouped)) = Cardinality(KeptOfNetlist)

C3_Witness ==
    /\ pc = "done"
    /\ Len(grouped) = 2
    /\ \E g \in 1..Len(grouped) : Len(grouped[g]) = 2
    /\ SumQty(GroupRows, Len(grouped)) = 3

(* C4 *)

\* C4: the filter keeps exactly the components without a field named
\* "exclude" in any spelling, in their original order; a component with such
\* a field, empty or not, is in no group and in no Qty or Reference(s) cell.
C4_ExcludedAreDropped ==
    /\ pc \in {"filtered", "header", "rows", "close", "done", "aborted"} =>
          components = SelectSeq(netlist, NotExcluded)
    /\ pc \in {"rows", "close", "done", "aborted"} =>
          \A g \in 1..Len(grouped) : \A k \in 1..Len(grouped[g]) :
              NotExcluded(grouped[g][k])
    /\ RowsWritten =>
          \A g \in 1..Len(grouped) :
              /\ GroupRows[g][1] = ToString(Len(SelectSeq(grouped[g], NotExcluded)))
              /\ GroupRows[g][2] = RefsFrom(SelectSeq(grouped[g], NotExcluded), 1)

C4_Witness ==
    /\ pc = "done"
    /\ Len(netlist) = 3
    /\ HasExcludeField(netlist[1]) /\ netlist[1].fields[1].value = ""
    /\ HasExcludeField(netlist[2]) /\ HasHMTField(netlist[2])
    /\ components = <<netlist[3]>>
    /\ Len(output) = 2

(* C5 *)

\* C5: when the auxiliary CSV is missing, or is there with a header that
\* lacks a column of the schema, the output is the header row and one row
\* per group, and the run ends normally: handle closed, exit code 0.
C5_NoAuxRowsAndNormalEnd ==
    (RowsWritten /\ (~auxFile.exists \/ ~HeaderHasSchema)) =>
        /\ Len(output) = 1 + Len(grouped)
        /\ pc # "aborted"
        /\ exitCode \in {-1, 0}
        /\ pc = "done" => (closed /\ exitCode = 0)

(* C6 *)

\* C6: when the auxiliary CSV has a header with every column of the schema,
\* the output is the header row, one row per group, then one row per
\* auxiliary data row in file order, each of the seven cells the row has
\* under the schema's column names; while group rows are being written no
\* auxiliary row is in the output.
C6_AuxRowsFollowGroupRows ==
    /\ (pc = "rows" /\ gi <= Len(grouped)) => Len(output) = gi
    /\ (pc \in {"close", "done"} /\ auxFile.exists /\ HeaderHasSchema) =>
          /\ Len(output) = 1 + Len(grouped) + Len(auxFile.rows)
          /\ output[1] = columns
          /\ \A k \in 1..Len(auxFile.rows) :
                output[1 + Len(grouped) + k] =
                    [j \in 1..7 |-> AuxCell(columns[j], k)]

C6_Witness ==
    /\ pc = "done"
    /\ auxFile.exists /\ auxFile.header = Some(WideHeader)
    /\ Len(auxFile.rows) = 2
    /\ Len(grouped) = 2
    /\ Len(output) = 5

(* C9 *)

\* C9: the row of every group has exactly seven cells: the number of its
\* components, their references in group order joined by ", ", then the
\* cells of description, mfg1, mfg1pn, mfg2, mfg2pn; the row buffer holds
\* nothing of the group before.
C9_RowFollowsSchema ==
    (pc \in {"rows", "close", "done", "aborted"}) =>
        /\ \A g \in 1..(gi - 1) :
              /\ Len(output[g + 1]) = 7
              /\ output[g + 1][1] = ToString(Len(grouped[g]))
              /\ output[g + 1][2] = RefsFrom(grouped[g], 1)
              /\ \A k \in 1..5 :
                    output[g + 1][k + 2] =
                        Str(OptCell(getGroupField(grouped[g], hmtFieldNames[k])))
        /\ gi > 1 =>
              /\ Len(row) = Len(columns)
              /\ row[1] = IntCell(Len(grouped[gi - 1]))
              /\ row[2] = StrCell(RefsFrom(grouped[gi - 1], 1))

C9_Witness ==
    /\ pc = "rows"
    /\ gi = 3
    /\ Len(grouped[1]) = 1
    /\ Len(grouped[2]) = 2
    /\ output[3][1] = "2"
    /\ output[3][2] = "R2, R3"

(* C10 *)

====
